---- MODULE Spec2Model ----
(***************************************************************************)
(* SDL GPU WebXR support (src/src/gpu/xr/SDL_gpu_webxr.c): the session     *)
(* singleton, the lifecycle callbacks the JavaScript library delivers, and *)
(* the per-frame view marshaller, as a state machine.                      *)
(*                                                                         *)
(* The C side is translated from the source.  The JavaScript library       *)
(* (library_sdl_webxr.js) is the environment; its state (jsState,          *)
(* jsPending, xrSupported) and the Env* actions that drive it are          *)
(* modelled from the design document.                                      *)
(***************************************************************************)
EXTENDS Integers, Sequences, FiniteSets, TLC

(* ------------------------------ bounds -------------------------------- *)

\* Heap addresses calloc may hand out (1..MaxAddr); 0 is NULL.
MaxAddr == 2
\* Session start requests the environment may hold unanswered at once.
MaxPending == 2
\* Longest reference-space string the environment passes to onStarted.
MaxStrLen == 33
\* Largest view count the environment reports.
MaxViewCount == 3
\* Mode-support probes the environment may hold unanswered for one mode.
MaxProbes == 2

(* ----------------------- enums of SDL_webxr.h ------------------------- *)

SDL_WEBXR_SESSION_INLINE == 0
SDL_WEBXR_SESSION_IMMERSIVE_VR == 1
SDL_WEBXR_SESSION_IMMERSIVE_AR == 2

SDL_WEBXR_REFSPACE_VIEWER == 0
SDL_WEBXR_REFSPACE_LOCAL == 1
SDL_WEBXR_REFSPACE_LOCAL_FLOOR == 2
SDL_WEBXR_REFSPACE_BOUNDED_FLOOR == 3
SDL_WEBXR_REFSPACE_UNBOUNDED == 4

SDL_WEBXR_STATE_IDLE == 0
SDL_WEBXR_STATE_REQUESTING == 1
SDL_WEBXR_STATE_READY == 2
SDL_WEBXR_STATE_RUNNING == 3
SDL_WEBXR_STATE_VISIBLE == 4
SDL_WEBXR_STATE_VISIBLE_BLURRED == 5
SDL_WEBXR_STATE_ENDED == 6

SessionModes ==
    { SDL_WEBXR_SESSION_INLINE, SDL_WEBXR_SESSION_IMMERSIVE_VR,
      SDL_WEBXR_SESSION_IMMERSIVE_AR }

ReferenceSpaceTypes ==
    { SDL_WEBXR_REFSPACE_VIEWER, SDL_WEBXR_REFSPACE_LOCAL,
      SDL_WEBXR_REFSPACE_LOCAL_FLOOR, SDL_WEBXR_REFSPACE_BOUNDED_FLOOR,
      SDL_WEBXR_REFSPACE_UNBOUNDED }

SessionStates == SDL_WEBXR_STATE_IDLE .. SDL_WEBXR_STATE_ENDED

\* The states in which the environment has a session running.
Renderable ==
    { SDL_WEBXR_STATE_RUNNING, SDL_WEBXR_STATE_VISIBLE,
      SDL_WEBXR_STATE_VISIBLE_BLURRED }

(* --------------------------- memory, strings -------------------------- *)

NULL == 0
Addr == 1 .. MaxAddr

\* sizeof(refSpaceTypeString)
RefSpaceStringSize == 32

\* A char * argument: <<>> is the null pointer, <<s>> points at string s.
NullStr == <<>>
Ptr(s) == <<s>>

Min(a, b) == IF a < b THEN a ELSE b

\* A string of n characters.
RECURSIVE StrOfLen(_)
StrOfLen(n) == IF n = 0 THEN "" ELSE StrOfLen(n - 1) \o "x"

\* SDL_strlcpy(dst, src, maxlen): what dst holds afterwards, and how many
\* bytes of dst were written, terminator included.
SDL_strlcpy_dst(src, maxlen) ==
    SubSeq(src, 1, Min(Len(src), maxlen - 1))

SDL_strlcpy_written(src, maxlen) ==
    IF maxlen = 0 THEN 0 ELSE Min(Len(src), maxlen - 1) + 1

\* SDL_SetError(fmt, ...) : the message left as the last error.
ErrUnavailable == "WebXR is not available"
ErrAlreadyActive == "WebXR session already active"
ErrInvalid == "Invalid session or device"
ErrSessionFailed(message) == "WebXR session failed: " \o message

\* SDL_calloc(1, sizeof(SDL_WebXRSession)): all fields zero.
ZeroSession ==
    [ mode |-> 0, refSpaceType |-> 0, state |-> 0,
      refSpaceTypeString |-> "", initialized |-> FALSE ]

\* What the model keeps at an address that holds no session.
FreedMem ==
    [ mode |-> -1, refSpaceType |-> -1, state |-> -1,
      refSpaceTypeString |-> "", initialized |-> FALSE ]

(* ------------------------------ frames -------------------------------- *)

MatrixIdx == 0 .. 15
ZeroMatrix == [k \in MatrixIdx |-> 0]
\* What the caller's buffer holds before BeginFrame writes it.
CallerMatrix == [k \in MatrixIdx |-> -1]
CallerView ==
    [ projectionMatrix |-> CallerMatrix, viewMatrix |-> CallerMatrix,
      viewportX |-> -1, viewportY |-> -1,
      viewportWidth |-> -1, viewportHeight |-> -1 ]
CallerFrame ==
    [ predictedDisplayTime |-> -1, viewCount |-> -1,
      views |-> [i \in 0 .. 1 |-> CallerView] ]

\* What the environment writes for view i when a fetch succeeds.
EnvProjection(i) == [k \in MatrixIdx |-> 100 + 16 * i + k]
EnvTransform(i) == [k \in MatrixIdx |-> 200 + 16 * i + k]
EnvViewport(i) == << 960 * i, 0, 960, 1080 >>

\* The outcome of the three per-view fetches: TRUE is success.
FetchOutcome == [proj : BOOLEAN, xform : BOOLEAN, vp : BOOLEAN]
AllFetched == [proj |-> TRUE, xform |-> TRUE, vp |-> TRUE]

(* ------------------------- mode-support cache ------------------------- *)

\* static int g_mode_supported[3]: its length and its indices.
ModeSlotCount == 3
ModeSlots == 0 .. (ModeSlotCount - 1)
\* The initializer of every entry: the answer is not known yet.
Unknown == 0 - 1
\* The modes a caller passes: the three of the enum, and a value past them.
ModeArgs == SessionModes \cup {ModeSlotCount}
\* Every value a caller or the environment passes as a mode: those, and a
\* negative one (the enum is an int in C).
ModeDomain == ModeArgs \cup {0 - 1}
\* The answers the environment's probe delivers: 0 is no, 1 is yes.
ProbeAnswers == {0, 1}

\* The predicted display times the environment's frame may carry; NoTime
\* when it carries none.
NoTime == 0 - 1
DisplayTimes == {NoTime, 16}

(* ------------------------------- state -------------------------------- *)

VARIABLES
    xrSupported,   \* environment: sdl_webxr_is_supported() != 0
    jsState,       \* environment: what sdl_webxr_get_session_state() returns
    jsPending,     \* environment: start requests not yet answered
    g_session,     \* the singleton slot: NULL or the session's address
    allocated,     \* addresses calloc returned and free has not released
    heap,          \* the SDL_WebXRSession at each address
    ended,         \* handles EndSession was called on (the host may keep them)
    lastError,     \* SDL's last-error message
    frame,         \* the caller's SDL_WebXRFrame buffer
    aborted,       \* the process was stopped by the allocator
    g_mode_supported, \* the mode-support cache: -1 unknown, 0 no, 1 yes
    jsProbes,      \* environment: mode-support probes not yet answered, per mode
    jsDisplayTime, \* environment: the predicted display time of its frame
    call           \* the last operation: its arguments, result, environment calls

envVars == << xrSupported, jsState, jsPending >>
cVars == << g_session, allocated, heap, ended, lastError, frame, aborted >>
probeVars == << g_mode_supported, jsProbes >>
vars == << xrSupported, jsState, jsPending, g_session, allocated, heap,
           ended, lastError, frame, aborted, g_mode_supported, jsProbes,
           jsDisplayTime, call >>

Init ==
    /\ xrSupported \in BOOLEAN
    /\ jsState = SDL_WEBXR_STATE_IDLE
    /\ jsPending = 0
    /\ g_session = NULL
    /\ allocated = {}
    /\ heap = [a \in Addr |-> FreedMem]
    /\ ended = {}
    /\ lastError = ""
    /\ frame = CallerFrame
    /\ aborted = FALSE
    /\ g_mode_supported = [m \in ModeSlots |-> Unknown]
    /\ jsProbes = [m \in ModeDomain |-> 0]
    /\ jsDisplayTime = NoTime
    /\ call = [op |-> "init", h |-> NULL, ret |-> NULL, env |-> {}]

(* --------------------------- the environment -------------------------- *)

\* SDL_WebXR_IsAvailable
SDL_WebXR_IsAvailable == xrSupported

\* sdl_webxr_get_session_state()
sdl_webxr_get_session_state == jsState

\* sdl_webxr_initialize(mode, refSpaceType, onStarted, onEnded, onFailed,
\* onFrame): the environment notes the request and answers it later.
sdl_webxr_initialize(mode, refSpaceType) ==
    /\ jsPending < MaxPending
    /\ jsState' = SDL_WEBXR_STATE_REQUESTING
    /\ jsPending' = jsPending + 1

\* sdl_webxr_uninitialize(): asks the environment to tear the session down;
\* the teardown completes later (EnvEnded), not before the call returns.
sdl_webxr_uninitialize == UNCHANGED << jsState, jsPending >>

\* sdl_webxr_is_session_supported(mode, callback): the environment notes
\* the probe and answers it later through the callback.
sdl_webxr_is_session_supported(mode) ==
    /\ jsProbes[mode] < MaxProbes
    /\ jsProbes' = [jsProbes EXCEPT ![mode] = @ + 1]

(* --------------------------- mode support ----------------------------- *)

\* A slip: the first answer for a mode is kept, later ones are dropped.
mode_supported_callback_FirstOnly(mode, supported) ==
    /\ g_mode_supported' =
          IF mode >= 0 /\ mode < ModeSlotCount
             /\ g_mode_supported[mode] = Unknown
          THEN [g_mode_supported EXCEPT ![mode] = supported]
          ELSE g_mode_supported
    /\ call' = [op |-> "mode_supported_callback", h |-> NULL, mode |-> mode,
                supported |-> supported, ret |-> NULL, env |-> {}]
    /\ UNCHANGED << g_session, allocated, heap, ended, lastError, frame,
                    aborted >>

\* A slip: the mode is folded into the array instead of being tested.
mode_supported_callback_Wrapped(mode, supported) ==
    /\ g_mode_supported' =
          [g_mode_supported EXCEPT ![mode % ModeSlotCount] = supported]
    /\ call' = [op |-> "mode_supported_callback", h |-> NULL, mode |-> mode,
                supported |-> supported, ret |-> NULL, env |-> {}]
    /\ UNCHANGED << g_session, allocated, heap, ended, lastError, frame,
                    aborted >>

\* mode_supported_callback(mode, supported)
mode_supported_callback(mode, supported) ==
    /\ g_mode_supported' =
          IF mode >= 0 /\ mode < ModeSlotCount
          THEN [g_mode_supported EXCEPT ![mode] = supported]
          ELSE g_mode_supported
    /\ call' = [op |-> "mode_supported_callback", h |-> NULL, mode |-> mode,
                supported |-> supported, ret |-> NULL, env |-> {}]
    /\ UNCHANGED << g_session, allocated, heap, ended, lastError, frame,
                    aborted >>

\* A slip: only a cached yes counts as a known answer.
CacheKnown_OnlyYes(mode) ==
    mode >= 0 /\ mode < ModeSlotCount /\ g_mode_supported[mode] > 0

\* The test of the cached result: the mode has an entry and it is known.
CacheKnown(mode) ==
    mode >= 0 /\ mode < ModeSlotCount /\ g_mode_supported[mode] >= 0

\* A slip: no mode is answered optimistically.
OptimisticDefault_None(mode) == FALSE

\* What IsSessionModeSupported returns while the answer is unknown.
OptimisticDefault(mode) == mode = SDL_WEBXR_SESSION_IMMERSIVE_VR

\* The record of an IsSessionModeSupported call: probed tells whether it
\* asked the environment to probe the mode.
ModeSupportedCall(mode, ret, probed) ==
    [ op |-> "IsSessionModeSupported", h |-> NULL, mode |-> mode,
      ret |-> ret, probed |-> probed,
      env |-> IF probed
              THEN {"sdl_webxr_is_supported", "sdl_webxr_is_session_supported"}
              ELSE {"sdl_webxr_is_supported"} ]

\* A slip: no probe is triggered for a mode that has one outstanding.
SDL_WebXR_IsSessionModeSupported_SingleFlight(mode) ==
    /\ IF ~SDL_WebXR_IsAvailable
       THEN /\ call' = ModeSupportedCall(mode, FALSE, FALSE)
            /\ jsProbes' = jsProbes
       ELSE IF CacheKnown(mode)
       THEN /\ call' = ModeSupportedCall(mode, g_mode_supported[mode] # 0,
                                         FALSE)
            /\ jsProbes' = jsProbes
       ELSE IF jsProbes[mode] > 0
       THEN /\ call' = ModeSupportedCall(mode, OptimisticDefault(mode), FALSE)
            /\ jsProbes' = jsProbes
       ELSE /\ sdl_webxr_is_session_supported(mode)
            /\ call' = ModeSupportedCall(mode, OptimisticDefault(mode), TRUE)
    /\ UNCHANGED << xrSupported, jsState, jsPending, g_session, allocated,
                    heap, ended, lastError, frame, aborted,
                    g_mode_supported >>

\* A slip: the availability is not tested first.
SDL_WebXR_IsSessionModeSupported_NoAvailabilityCheck(mode) ==
    /\ IF CacheKnown(mode)
       THEN /\ call' = ModeSupportedCall(mode, g_mode_supported[mode] # 0,
                                         FALSE)
            /\ jsProbes' = jsProbes
       ELSE /\ sdl_webxr_is_session_supported(mode)
            /\ call' = ModeSupportedCall(mode, OptimisticDefault(mode), TRUE)
    /\ UNCHANGED << xrSupported, jsState, jsPending, g_session, allocated,
                    heap, ended, lastError, frame, aborted,
                    g_mode_supported >>

\* SDL_WebXR_IsSessionModeSupported(mode)
SDL_WebXR_IsSessionModeSupported(mode) ==
    /\ IF ~SDL_WebXR_IsAvailable
       THEN /\ call' = ModeSupportedCall(mode, FALSE, FALSE)
            /\ jsProbes' = jsProbes
       ELSE IF CacheKnown(mode)
       THEN /\ call' = ModeSupportedCall(mode, g_mode_supported[mode] # 0,
                                         FALSE)
            /\ jsProbes' = jsProbes
       ELSE /\ sdl_webxr_is_session_supported(mode)
            /\ call' = ModeSupportedCall(mode, OptimisticDefault(mode), TRUE)
    /\ UNCHANGED << xrSupported, jsState, jsPending, g_session, allocated,
                    heap, ended, lastError, frame, aborted,
                    g_mode_supported >>

(* ------------------- callbacks from JavaScript (C side) --------------- *)

\* The state a callback finds in the singleton before it writes it; NoState
\* when the slot is empty.
NoState == 0 - 1
StateFound == IF g_session # NULL THEN heap[g_session].state ELSE NoState

\* The body of webxr_on_session_started, copying with SDL_strlcpy into
\* refSpaceTypeString with the size maxlen.
SessionStartedCopying(refSpaceType, maxlen) ==
    /\ IF g_session # NULL
       THEN /\ heap' =
                 [heap EXCEPT
                    ![g_session].refSpaceTypeString =
                        IF refSpaceType # NullStr
                        THEN SDL_strlcpy_dst(refSpaceType[1], maxlen)
                        ELSE @,
                    ![g_session].state = SDL_WEBXR_STATE_RUNNING,
                    ![g_session].initialized = TRUE]
            /\ call' = [op |-> "webxr_on_session_started", h |-> g_session,
                        arg |-> refSpaceType, ret |-> NULL, env |-> {},
                        was |-> heap[g_session].state,
                        written |->
                            IF refSpaceType # NullStr
                            THEN SDL_strlcpy_written(refSpaceType[1], maxlen)
                            ELSE 0]
       ELSE /\ heap' = heap
            /\ call' = [op |-> "webxr_on_session_started", h |-> NULL,
                        arg |-> refSpaceType, ret |-> NULL, env |-> {},
                        was |-> NoState, written |-> 0]
    /\ UNCHANGED << g_session, allocated, ended, lastError, frame, aborted >>

\* A slip: the size handed to SDL_strlcpy is one more than the buffer's.
webxr_on_session_started_OffByOne(refSpaceType) ==
    SessionStartedCopying(refSpaceType, RefSpaceStringSize + 1)

\* A slip: the success callback is taken only by a session in REQUESTING.
webxr_on_session_started_OnlyRequesting(refSpaceType) ==
    IF StateFound = SDL_WEBXR_STATE_REQUESTING
    THEN SessionStartedCopying(refSpaceType, RefSpaceStringSize)
    ELSE /\ call' = [op |-> "webxr_on_session_started", h |-> g_session,
                     arg |-> refSpaceType, ret |-> NULL, env |-> {},
                     was |-> StateFound, written |-> 0]
         /\ UNCHANGED << g_session, allocated, heap, ended, lastError, frame,
                         aborted >>

\* webxr_on_session_started(refSpaceType)
webxr_on_session_started(refSpaceType) ==
    SessionStartedCopying(refSpaceType, RefSpaceStringSize)

\* A slip: the end callback puts the session back to IDLE.
webxr_on_session_ended_Idle ==
    /\ IF g_session # NULL
       THEN heap' = [heap EXCEPT
                       ![g_session].state = SDL_WEBXR_STATE_IDLE,
                       ![g_session].initialized = FALSE]
       ELSE heap' = heap
    /\ call' = [op |-> "webxr_on_session_ended", h |-> g_session,
                ret |-> NULL, env |-> {}, was |-> StateFound]
    /\ UNCHANGED << g_session, allocated, ended, lastError, frame, aborted >>

\* webxr_on_session_ended()
\* An end callback that sets the state and forgets the initialized flag.
webxr_on_session_ended_FlagKept ==
    /\ IF g_session # NULL
       THEN heap' = [heap EXCEPT ![g_session].state = SDL_WEBXR_STATE_ENDED]
       ELSE heap' = heap
    /\ call' = [op |-> "webxr_on_session_ended", h |-> g_session,
                ret |-> NULL, env |-> {}, was |-> StateFound]
    /\ UNCHANGED << g_session, allocated, ended, lastError, frame, aborted >>

webxr_on_session_ended ==
    /\ IF g_session # NULL
       THEN heap' = [heap EXCEPT
                       ![g_session].state = SDL_WEBXR_STATE_ENDED,
                       ![g_session].initialized = FALSE]
       ELSE heap' = heap
    /\ call' = [op |-> "webxr_on_session_ended", h |-> g_session,
                ret |-> NULL, env |-> {}, was |-> StateFound]
    /\ UNCHANGED << g_session, allocated, ended, lastError, frame, aborted >>

\* A slip: the message is stored as it came, without the format.
webxr_on_session_failed_Unformatted(message) ==
    /\ IF g_session # NULL
       THEN /\ heap' = [heap EXCEPT
                          ![g_session].state = SDL_WEBXR_STATE_IDLE,
                          ![g_session].initialized = FALSE]
            /\ lastError' = IF message # NullStr THEN message[1] ELSE lastError
       ELSE /\ heap' = heap
            /\ lastError' = lastError
    /\ call' = [op |-> "webxr_on_session_failed", h |-> g_session,
                arg |-> message, ret |-> NULL, env |-> {}, was |-> StateFound]
    /\ UNCHANGED << g_session, allocated, ended, frame, aborted >>

\* A failure callback that records the error before it looks at the slot.
webxr_on_session_failed_ErrorAlways(message) ==
    /\ IF g_session # NULL
       THEN heap' = [heap EXCEPT
                       ![g_session].state = SDL_WEBXR_STATE_IDLE,
                       ![g_session].initialized = FALSE]
       ELSE heap' = heap
    /\ lastError' = IF message # NullStr
                    THEN ErrSessionFailed(message[1])
                    ELSE lastError
    /\ call' = [op |-> "webxr_on_session_failed", h |-> g_session,
                arg |-> message, ret |-> NULL, env |-> {}, was |-> StateFound]
    /\ UNCHANGED << g_session, allocated, ended, frame, aborted >>

\* A failure callback that records the error and leaves the session's
\* state as it found it.
webxr_on_session_failed_ErrorOnly(message) ==
    /\ heap' = heap
    /\ lastError' = IF g_session # NULL /\ message # NullStr
                    THEN ErrSessionFailed(message[1])
                    ELSE lastError
    /\ call' = [op |-> "webxr_on_session_failed", h |-> g_session,
                arg |-> message, ret |-> NULL, env |-> {}, was |-> StateFound]
    /\ UNCHANGED << g_session, allocated, ended, frame, aborted >>

\* webxr_on_session_failed(message)
webxr_on_session_failed(message) ==
    /\ IF g_session # NULL
       THEN /\ heap' = [heap EXCEPT
                          ![g_session].state = SDL_WEBXR_STATE_IDLE,
                          ![g_session].initialized = FALSE]
            /\ lastError' = IF message # NullStr
                            THEN ErrSessionFailed(message[1])
                            ELSE lastError
       ELSE /\ heap' = heap
            /\ lastError' = lastError
    /\ call' = [op |-> "webxr_on_session_failed", h |-> g_session,
                arg |-> message, ret |-> NULL, env |-> {}, was |-> StateFound]
    /\ UNCHANGED << g_session, allocated, ended, frame, aborted >>

(* ------------------------------ public API ---------------------------- *)

\* The record of a RequestSession call: calloc is what SDL_calloc returned
\* (NULL too when the call did not get as far as allocating).
RequestCall(mode, refSpaceType, calloc, ret, env) ==
    [ op |-> "RequestSession", h |-> NULL, mode |-> mode,
      refSpaceType |-> refSpaceType, calloc |-> calloc, ret |-> ret,
      env |-> env ]

\* RequestSession, the environment lacks XR support.
RequestSession_Unavailable(mode, refSpaceType) ==
    /\ lastError' = ErrUnavailable
    /\ call' = RequestCall(mode, refSpaceType, NULL, NULL,
                           {"sdl_webxr_is_supported"})
    /\ UNCHANGED << jsState, jsPending, g_session, allocated, heap >>

\* A slip: the populated-slot path hands back the existing session.
RequestSession_AlreadyActive_ReturnsExisting(mode, refSpaceType) ==
    /\ lastError' = ErrAlreadyActive
    /\ call' = RequestCall(mode, refSpaceType, NULL, g_session,
                           {"sdl_webxr_is_supported"})
    /\ UNCHANGED << jsState, jsPending, g_session, allocated, heap >>

\* RequestSession, the singleton slot is populated.
RequestSession_AlreadyActive(mode, refSpaceType) ==
    /\ lastError' = ErrAlreadyActive
    /\ call' = RequestCall(mode, refSpaceType, NULL, NULL,
                           {"sdl_webxr_is_supported"})
    /\ UNCHANGED << jsState, jsPending, g_session, allocated, heap >>

\* A slip: the new session's state is left as calloc zeroed it.
RequestSession_Create_StateNotSet(mode, refSpaceType, a) ==
    /\ g_session' = a
    /\ IF a = NULL
       THEN /\ call' = RequestCall(mode, refSpaceType, a, NULL,
                                   {"sdl_webxr_is_supported"})
            /\ UNCHANGED << jsState, jsPending, allocated, heap >>
       ELSE /\ allocated' = allocated \cup {a}
            /\ heap' = [heap EXCEPT
                          ![a] = [ZeroSession EXCEPT
                                    !.mode = mode,
                                    !.refSpaceType = refSpaceType]]
            /\ sdl_webxr_initialize(mode, refSpaceType)
            /\ call' = RequestCall(mode, refSpaceType, a, a,
                                   {"sdl_webxr_is_supported",
                                    "sdl_webxr_initialize"})
    /\ UNCHANGED lastError

\* RequestSession, allocating the singleton; a is what SDL_calloc returns:
\* NULL, or an address not in use.
RequestSession_Create(mode, refSpaceType, a) ==
    /\ g_session' = a
    /\ IF a = NULL
       THEN /\ call' = RequestCall(mode, refSpaceType, a, NULL,
                                   {"sdl_webxr_is_supported"})
            /\ UNCHANGED << jsState, jsPending, allocated, heap >>
       ELSE /\ allocated' = allocated \cup {a}
            /\ heap' = [heap EXCEPT
                          ![a] = [ZeroSession EXCEPT
                                    !.mode = mode,
                                    !.refSpaceType = refSpaceType,
                                    !.state = SDL_WEBXR_STATE_REQUESTING,
                                    !.initialized = FALSE]]
            /\ sdl_webxr_initialize(mode, refSpaceType)
            /\ call' = RequestCall(mode, refSpaceType, a, a,
                                   {"sdl_webxr_is_supported",
                                    "sdl_webxr_initialize"})
    /\ UNCHANGED lastError

\* A slip: the slot is not looked at before allocating.
RequestSession_NoSlotCheck(mode, refSpaceType, a) ==
    /\ a \in {NULL} \cup (Addr \ allocated)
    /\ IF ~SDL_WebXR_IsAvailable
       THEN RequestSession_Unavailable(mode, refSpaceType)
       ELSE RequestSession_Create(mode, refSpaceType, a)
    /\ UNCHANGED << xrSupported, ended, frame, aborted >>

\* A slip: the slot is checked before the availability.
RequestSession_SlotCheckFirst(mode, refSpaceType, a) ==
    /\ a \in {NULL} \cup (Addr \ allocated)
    /\ IF g_session # NULL
       THEN RequestSession_AlreadyActive(mode, refSpaceType)
       ELSE IF ~SDL_WebXR_IsAvailable
       THEN RequestSession_Unavailable(mode, refSpaceType)
       ELSE RequestSession_Create(mode, refSpaceType, a)
    /\ UNCHANGED << xrSupported, ended, frame, aborted >>

\* A slip: a session that a failure put back to IDLE does not count as
\* active.
RequestSession_IdleNotActive(mode, refSpaceType, a) ==
    /\ a \in {NULL} \cup (Addr \ allocated)
    /\ IF ~SDL_WebXR_IsAvailable
       THEN RequestSession_Unavailable(mode, refSpaceType)
       ELSE IF g_session # NULL /\ StateFound # SDL_WEBXR_STATE_IDLE
       THEN RequestSession_AlreadyActive(mode, refSpaceType)
       ELSE RequestSession_Create(mode, refSpaceType, a)
    /\ UNCHANGED << xrSupported, ended, frame, aborted >>

\* SDL_WebXR_RequestSession(mode, refSpaceType)
SDL_WebXR_RequestSession(mode, refSpaceType, a) ==
    /\ a \in {NULL} \cup (Addr \ allocated)
    /\ IF ~SDL_WebXR_IsAvailable
       THEN RequestSession_Unavailable(mode, refSpaceType)
       ELSE IF g_session # NULL
       THEN RequestSession_AlreadyActive(mode, refSpaceType)
       ELSE RequestSession_Create(mode, refSpaceType, a)
    /\ UNCHANGED << xrSupported, ended, frame, aborted >>

\* A slip: the cached state is returned without asking the environment.
SDL_WebXR_GetSessionState_Cached(session) ==
    /\ call' = [op |-> "GetSessionState", h |-> session,
                ret |-> IF session = NULL THEN SDL_WEBXR_STATE_IDLE
                        ELSE heap[session].state,
                env |-> {}]
    /\ UNCHANGED << xrSupported, jsState, jsPending, g_session, allocated,
                    heap, ended, lastError, frame, aborted >>

\* SDL_WebXR_GetSessionState(session)
SDL_WebXR_GetSessionState(session) ==
    /\ IF session = NULL
       THEN /\ call' = [op |-> "GetSessionState", h |-> session,
                        ret |-> SDL_WEBXR_STATE_IDLE, env |-> {}]
            /\ heap' = heap
       ELSE /\ heap' = [heap EXCEPT
                          ![session].state = sdl_webxr_get_session_state]
            /\ call' = [op |-> "GetSessionState", h |-> session,
                        ret |-> heap'[session].state,
                        env |-> {"sdl_webxr_get_session_state"}]
    /\ UNCHANGED << xrSupported, jsState, jsPending, g_session, allocated,
                    ended, lastError, frame, aborted >>

\* A slip: the singleton slot is left pointing at the freed session.
SDL_WebXR_EndSession_SlotKept(session, again, crash) ==
    /\ IF session = NULL
       THEN /\ call' = [op |-> "EndSession", h |-> session, again |-> again,
                        ret |-> NULL, env |-> {}, doubleFree |-> FALSE]
            /\ UNCHANGED << jsState, jsPending, g_session, allocated, heap,
                            ended, aborted >>
       ELSE /\ sdl_webxr_uninitialize
            /\ g_session' = g_session
            /\ allocated' = allocated \ {session}
            /\ heap' = [heap EXCEPT ![session] = FreedMem]
            /\ ended' = ended \cup {session}
            /\ aborted' = (session \notin allocated /\ crash)
            /\ call' = [op |-> "EndSession", h |-> session, again |-> again,
                        ret |-> NULL, env |-> {"sdl_webxr_uninitialize"},
                        doubleFree |-> session \notin allocated]
    /\ UNCHANGED << xrSupported, lastError, frame >>

\* SDL_WebXR_EndSession(session).  again marks a call on a handle that
\* EndSession was already called on; crash is what the allocator does when
\* SDL_free is handed memory that is not allocated (stop the process, or
\* carry on).
SDL_WebXR_EndSession(session, again, crash) ==
    /\ IF session = NULL
       THEN /\ call' = [op |-> "EndSession", h |-> session, again |-> again,
                        ret |-> NULL, env |-> {}, doubleFree |-> FALSE]
            /\ UNCHANGED << jsState, jsPending, g_session, allocated, heap,
                            ended, aborted >>
       ELSE /\ sdl_webxr_uninitialize
            /\ g_session' = IF g_session = session THEN NULL ELSE g_session
            /\ allocated' = allocated \ {session}
            /\ heap' = [heap EXCEPT ![session] = FreedMem]
            /\ ended' = ended \cup {session}
            /\ aborted' = (session \notin allocated /\ crash)
            /\ call' = [op |-> "EndSession", h |-> session, again |-> again,
                        ret |-> NULL, env |-> {"sdl_webxr_uninitialize"},
                        doubleFree |-> session \notin allocated]
    /\ UNCHANGED << xrSupported, lastError, frame >>

\* views[2] of SDL_WebXRFrame, and the stereo ceiling BeginFrame clamps to.
ViewCapacity == 2
StereoMax == 2

\* What the environment answers the fetches for view i: the outcome it
\* chose, and failure for a view it does not have.
FetchResult(fo, i) ==
    IF i \in DOMAIN fo THEN fo[i]
    ELSE [proj |-> FALSE, xform |-> FALSE, vp |-> FALSE]

\* A slip: a failed projection fetch zero-fills the whole view.
FetchView_ZeroAll(i, o) ==
    [ projectionMatrix |-> IF o.proj THEN EnvProjection(i) ELSE ZeroMatrix,
      viewMatrix |-> IF o.xform /\ o.proj THEN EnvTransform(i) ELSE ZeroMatrix,
      viewportX |-> IF o.vp /\ o.proj THEN EnvViewport(i)[1] ELSE 0,
      viewportY |-> IF o.vp /\ o.proj THEN EnvViewport(i)[2] ELSE 0,
      viewportWidth |-> IF o.vp /\ o.proj THEN EnvViewport(i)[3] ELSE 0,
      viewportHeight |-> IF o.vp /\ o.proj THEN EnvViewport(i)[4] ELSE 0 ]

\* One pass of BeginFrame's per-view loop body: the view it leaves in
\* views[i], given which of the three fetches succeeded.
FetchView(i, o) ==
    [ projectionMatrix |-> IF o.proj THEN EnvProjection(i) ELSE ZeroMatrix,
      viewMatrix |-> IF o.xform THEN EnvTransform(i) ELSE ZeroMatrix,
      viewportX |-> IF o.vp THEN EnvViewport(i)[1] ELSE 0,
      viewportY |-> IF o.vp THEN EnvViewport(i)[2] ELSE 0,
      viewportWidth |-> IF o.vp THEN EnvViewport(i)[3] ELSE 0,
      viewportHeight |-> IF o.vp THEN EnvViewport(i)[4] ELSE 0 ]

\* A slip: the reported count is used as it comes.
ClampViewCount_None(vc) == vc

\* The view count BeginFrame keeps of a reported count vc > 0.
ClampViewCount(vc) == IF vc > StereoMax THEN StereoMax ELSE vc

\* A slip: READY is taken for a state frames can be retrieved in.
IsRenderState_Ready(state) ==
    state \in { SDL_WEBXR_STATE_READY, SDL_WEBXR_STATE_RUNNING,
                SDL_WEBXR_STATE_VISIBLE, SDL_WEBXR_STATE_VISIBLE_BLURRED }

\* BeginFrame's test of the state: valid for rendering.
IsRenderState(state) ==
    state \in { SDL_WEBXR_STATE_RUNNING, SDL_WEBXR_STATE_VISIBLE,
                SDL_WEBXR_STATE_VISIBLE_BLURRED }

\* SDL_WebXR_BeginFrame(session, frame).  framePtr is NullStr for a NULL
\* frame and otherwise points at the caller's buffer; vc is what
\* sdl_webxr_get_view_count() reports and fo[i] the outcome of the three
\* fetches for view i.
\* A BeginFrame that tests the reported view count before storing it.
ViewCountStored_TestedFirst(buf, vc) ==
    IF vc <= 0 THEN buf ELSE [buf EXCEPT !.viewCount = vc]

\* frame->viewCount = sdl_webxr_get_view_count(), stored before it is
\* tested.
ViewCountStored(buf, vc) == [buf EXCEPT !.viewCount = vc]

\* A timestamp read from the environment's frame, which the code does not do.
PredictedDisplayTime_FromEnvironment ==
    IF jsDisplayTime # NoTime THEN jsDisplayTime ELSE 0

\* The timestamp BeginFrame stores: frame->predictedDisplayTime = 0.0.
PredictedDisplayTime == 0

SDL_WebXR_BeginFrame(session, framePtr, vc, fo) ==
    /\ IF session = NULL \/ framePtr = NullStr
       THEN /\ call' = [op |-> "BeginFrame", h |-> session,
                        framePtr |-> framePtr, ret |-> FALSE, env |-> {},
                        vc |-> 0, fetched |-> {}, fo |-> << >>]
            /\ frame' = IF framePtr = NullStr THEN frame ELSE framePtr[1]
            /\ heap' = heap
       ELSE LET state == sdl_webxr_get_session_state
                buf == framePtr[1]
            IN
            /\ heap' = [heap EXCEPT ![session].state = state]
            /\ IF ~IsRenderState(state)
               THEN /\ call' = [op |-> "BeginFrame", h |-> session,
                                framePtr |-> framePtr, ret |-> FALSE,
                                env |-> {"sdl_webxr_get_session_state"},
                                vc |-> 0, fetched |-> {}, fo |-> << >>]
                    /\ frame' = buf
               ELSE IF vc <= 0
               THEN /\ call' = [op |-> "BeginFrame", h |-> session,
                                framePtr |-> framePtr, ret |-> FALSE,
                                env |-> {"sdl_webxr_get_session_state",
                                         "sdl_webxr_get_view_count"},
                                vc |-> vc, fetched |-> {}, fo |-> << >>]
                    /\ frame' = ViewCountStored(buf, vc)
               ELSE LET n == ClampViewCount(vc) IN
                    /\ call' = [op |-> "BeginFrame", h |-> session,
                                framePtr |-> framePtr, ret |-> TRUE,
                                env |-> {"sdl_webxr_get_session_state",
                                         "sdl_webxr_get_view_count",
                                         "sdl_webxr_get_projection_for_view",
                                         "sdl_webxr_get_transform_for_view",
                                         "sdl_webxr_get_viewport_for_view"},
                                vc |-> vc, fetched |-> 0 .. (n - 1),
                                fo |-> [i \in 0 .. (n - 1) |-> FetchResult(fo, i)]]
                    /\ frame' =
                         [ predictedDisplayTime |-> PredictedDisplayTime,
                           viewCount |-> n,
                           views |-> [i \in DOMAIN buf.views |->
                                        IF i < n THEN FetchView(i, FetchResult(fo, i))
                                        ELSE buf.views[i]] ]
    /\ UNCHANGED << xrSupported, jsState, jsPending, g_session, allocated,
                    ended, lastError, aborted >>

(* ------------------- device binding, EndFrame, getters ---------------- *)

\* What the remaining operations leave alone: everything but the record of
\* the call (and, for BindGPUDevice, the last error).
GetterFrame ==
    UNCHANGED << xrSupported, jsState, jsPending, g_session, allocated, heap,
                 ended, frame, aborted >>

GetterCall(op, session, ret, env, out) ==
    [op |-> op, h |-> session, ret |-> ret, env |-> env, out |-> out]

\* A slip: only the device is validated.
SDL_WebXR_BindGPUDevice_DeviceOnly(session, device) ==
    /\ IF device = NULL
       THEN /\ lastError' = ErrInvalid
            /\ call' = GetterCall("BindGPUDevice", session, FALSE, {}, device)
       ELSE /\ lastError' = lastError
            /\ call' = GetterCall("BindGPUDevice", session, TRUE, {}, device)
    /\ GetterFrame

\* SDL_WebXR_BindGPUDevice(session, device); device is NULL or the address
\* of a GPU device.
SDL_WebXR_BindGPUDevice(session, device) ==
    /\ IF session = NULL \/ device = NULL
       THEN /\ lastError' = ErrInvalid
            /\ call' = GetterCall("BindGPUDevice", session, FALSE, {}, device)
       ELSE /\ lastError' = lastError
            /\ call' = GetterCall("BindGPUDevice", session, TRUE, {}, device)
    /\ GetterFrame

\* SDL_WebXR_EndFrame(session): nothing to submit.
SDL_WebXR_EndFrame(session) ==
    /\ call' = GetterCall("EndFrame", session, NULL, {}, << >>)
    /\ lastError' = lastError
    /\ GetterFrame

\* SDL_WebXR_GetViewCount(session); vc is what the environment reports.
SDL_WebXR_GetViewCount(session, vc) ==
    /\ call' = IF session = NULL
               THEN GetterCall("GetViewCount", session, 0, {}, << >>)
               ELSE GetterCall("GetViewCount", session, vc,
                               {"sdl_webxr_get_view_count"}, << >>)
    /\ lastError' = lastError
    /\ GetterFrame

\* SDL_WebXR_GetRenderTargetSize(session, width, height); width and height
\* tell whether the pointers are non-null, ok and size are what
\* sdl_webxr_get_render_target_size returns and writes.  out is what the
\* call stored through the pointers.
SDL_WebXR_GetRenderTargetSize(session, width, height, ok, size) ==
    /\ call' =
          IF session = NULL \/ ~width \/ ~height
          THEN GetterCall("GetRenderTargetSize", session, FALSE, {}, << >>)
          ELSE IF ~ok
          THEN GetterCall("GetRenderTargetSize", session, FALSE,
                          {"sdl_webxr_get_render_target_size"}, << >>)
          ELSE GetterCall("GetRenderTargetSize", session, TRUE,
                          {"sdl_webxr_get_render_target_size"}, size)
    /\ lastError' = lastError
    /\ GetterFrame

\* SDL_WebXR_GetHeadTransform(session, matrix); matrix tells whether the
\* pointer is non-null, ok is what sdl_webxr_get_transform_for_view(-1, ..)
\* returns.
SDL_WebXR_GetHeadTransform(session, matrix, ok) ==
    /\ call' =
          IF session = NULL \/ ~matrix
          THEN GetterCall("GetHeadTransform", session, FALSE, {}, << >>)
          ELSE GetterCall("GetHeadTransform", session, ok # 0,
                          {"sdl_webxr_get_transform_for_view"}, << >>)
    /\ lastError' = lastError
    /\ GetterFrame

\* SDL_WebXR_GetFramebuffer(session); handle is what the environment
\* returns.
SDL_WebXR_GetFramebuffer(session, handle) ==
    /\ call' = IF session = NULL
               THEN GetterCall("GetFramebuffer", session, 0, {}, << >>)
               ELSE GetterCall("GetFramebuffer", session, handle,
                               {"sdl_webxr_get_framebuffer"}, << >>)
    /\ lastError' = lastError
    /\ GetterFrame

\* SDL_WebXR_GetColorTextureForView(session, viewIndex)
SDL_WebXR_GetColorTextureForView(session, viewIndex, handle) ==
    /\ call' = IF session = NULL
               THEN GetterCall("GetColorTextureForView", session, 0, {},
                               viewIndex)
               ELSE GetterCall("GetColorTextureForView", session, handle,
                               {"sdl_webxr_get_color_texture_for_view"},
                               viewIndex)
    /\ lastError' = lastError
    /\ GetterFrame

\* SDL_WebXR_GetDepthTextureForView(session, viewIndex)
SDL_WebXR_GetDepthTextureForView(session, viewIndex, handle) ==
    /\ call' = IF session = NULL
               THEN GetterCall("GetDepthTextureForView", session, 0, {},
                               viewIndex)
               ELSE GetterCall("GetDepthTextureForView", session, handle,
                               {"sdl_webxr_get_depth_texture_for_view"},
                               viewIndex)
    /\ lastError' = lastError
    /\ GetterFrame

(* --------------------- what the environment may do -------------------- *)

EnvIdle == [op |-> "env", h |-> NULL, ret |-> NULL, env |-> {}]

\* The session start succeeded: the environment's state is RUNNING and
\* onStarted is delivered.
EnvStarted(s) ==
    /\ ~aborted
    /\ UNCHANGED probeVars
    /\ UNCHANGED jsDisplayTime
    /\ jsPending > 0
    /\ jsPending' = jsPending - 1
    /\ jsState' = SDL_WEBXR_STATE_RUNNING
    /\ xrSupported' = xrSupported
    /\ webxr_on_session_started(s)

\* The session start failed: the environment is back to IDLE and onFailed
\* is delivered.
EnvFailed(m) ==
    /\ ~aborted
    /\ UNCHANGED probeVars
    /\ UNCHANGED jsDisplayTime
    /\ jsPending > 0
    /\ jsPending' = jsPending - 1
    /\ jsState' = SDL_WEBXR_STATE_IDLE
    /\ xrSupported' = xrSupported
    /\ webxr_on_session_failed(m)

\* A running session ended (by the user, or a teardown completing).
EnvEnded ==
    /\ ~aborted
    /\ UNCHANGED probeVars
    /\ UNCHANGED jsDisplayTime
    /\ jsState \in Renderable
    /\ jsState' = SDL_WEBXR_STATE_ENDED
    /\ UNCHANGED << xrSupported, jsPending >>
    /\ webxr_on_session_ended

\* The session was created and is being set up; no callback yet.
EnvReady ==
    /\ ~aborted
    /\ UNCHANGED probeVars
    /\ UNCHANGED jsDisplayTime
    /\ jsPending > 0
    /\ jsState = SDL_WEBXR_STATE_REQUESTING
    /\ jsState' = SDL_WEBXR_STATE_READY
    /\ call' = EnvIdle
    /\ UNCHANGED << xrSupported, jsPending, g_session, allocated, heap,
                    ended, lastError, frame, aborted >>

\* A visibility change of a running session; no callback is wired for it.
EnvVisibility(st) ==
    /\ ~aborted
    /\ UNCHANGED probeVars
    /\ UNCHANGED jsDisplayTime
    /\ jsState \in Renderable
    /\ st \in Renderable \ {jsState}
    /\ jsState' = st
    /\ call' = EnvIdle
    /\ UNCHANGED << xrSupported, jsPending, g_session, allocated, heap,
                    ended, lastError, frame, aborted >>

\* XR support appears or goes away (a device is plugged in or removed).
EnvSupportChange ==
    /\ ~aborted
    /\ UNCHANGED probeVars
    /\ UNCHANGED jsDisplayTime
    /\ xrSupported' = ~xrSupported
    /\ call' = EnvIdle
    /\ UNCHANGED << jsState, jsPending, g_session, allocated, heap,
                    ended, lastError, frame, aborted >>

\* The environment's frame gets another predicted display time, or none.
EnvFrameTime(t) ==
    /\ ~aborted
    /\ jsState \in Renderable
    /\ t \in DisplayTimes \ {jsDisplayTime}
    /\ jsDisplayTime' = t
    /\ call' = EnvIdle
    /\ UNCHANGED << xrSupported, jsState, jsPending, g_session, allocated,
                    heap, ended, lastError, frame, aborted, g_mode_supported,
                    jsProbes >>

\* The environment answers a probe of mode: the callback is delivered.
EnvProbeAnswer(mode, supported) ==
    /\ ~aborted
    /\ jsProbes[mode] > 0
    /\ jsProbes' = [jsProbes EXCEPT ![mode] = @ - 1]
    /\ UNCHANGED << xrSupported, jsState, jsPending, jsDisplayTime >>
    /\ mode_supported_callback(mode, supported)

(* ----------------------------- the host ------------------------------- *)

\* Reference-space strings the environment passes to onStarted.
RefStrings ==
    { NullStr, Ptr("local-floor") }
        \cup { Ptr(StrOfLen(n)) :
                 n \in {0} \cup ((RefSpaceStringSize - 1) .. MaxStrLen) }

\* Failure messages the environment passes to onFailed.
FailMessages == { NullStr, Ptr(""), Ptr("denied") }

ViewCounts == -1 .. MaxViewCount

RequestSession(mode, refSpaceType, a) ==
    /\ ~aborted
    /\ UNCHANGED probeVars
    /\ UNCHANGED jsDisplayTime
    /\ SDL_WebXR_RequestSession(mode, refSpaceType, a)

\* The host queries a handle it holds: NULL or the live session.
GetSessionState(h) ==
    /\ ~aborted
    /\ UNCHANGED probeVars
    /\ UNCHANGED jsDisplayTime
    /\ h \in {NULL} \cup allocated
    /\ SDL_WebXR_GetSessionState(h)

EndSession(h) ==
    /\ ~aborted
    /\ UNCHANGED probeVars
    /\ UNCHANGED jsDisplayTime
    /\ h \in {NULL} \cup allocated
    /\ SDL_WebXR_EndSession(h, FALSE, FALSE)

\* The host calls EndSession again on a handle it already ended.
EndSessionAgain(h, crash) ==
    /\ ~aborted
    /\ UNCHANGED probeVars
    /\ UNCHANGED jsDisplayTime
    /\ h \in ended
    /\ SDL_WebXR_EndSession(h, TRUE, crash)

IsSessionModeSupported(mode) ==
    /\ ~aborted
    /\ UNCHANGED jsDisplayTime
    /\ SDL_WebXR_IsSessionModeSupported(mode)

\* The GPU device handles the host passes: NULL or its device.
Devices == {NULL, 1}
\* The framebuffer and texture handles the environment returns: 0 is none.
EnvHandles == {0, 7}
\* The render-target size the environment reports.
EnvTargetSize == << 1920, 1080 >>

BindGPUDevice(h, device) ==
    /\ ~aborted
    /\ UNCHANGED probeVars
    /\ UNCHANGED jsDisplayTime
    /\ h \in {NULL} \cup allocated
    /\ SDL_WebXR_BindGPUDevice(h, device)

EndFrame(h) ==
    /\ ~aborted
    /\ UNCHANGED probeVars
    /\ UNCHANGED jsDisplayTime
    /\ h \in {NULL} \cup allocated
    /\ SDL_WebXR_EndFrame(h)

GetViewCount(h, vc) ==
    /\ ~aborted
    /\ UNCHANGED probeVars
    /\ UNCHANGED jsDisplayTime
    /\ h \in {NULL} \cup allocated
    /\ SDL_WebXR_GetViewCount(h, vc)

GetRenderTargetSize(h, width, height, ok) ==
    /\ ~aborted
    /\ UNCHANGED probeVars
    /\ UNCHANGED jsDisplayTime
    /\ h \in {NULL} \cup allocated
    /\ SDL_WebXR_GetRenderTargetSize(h, width, height, ok, EnvTargetSize)

GetHeadTransform(h, matrix, ok) ==
    /\ ~aborted
    /\ UNCHANGED probeVars
    /\ UNCHANGED jsDisplayTime
    /\ h \in {NULL} \cup allocated
    /\ SDL_WebXR_GetHeadTransform(h, matrix, ok)

GetFramebuffer(h, handle) ==
    /\ ~aborted
    /\ UNCHANGED probeVars
    /\ UNCHANGED jsDisplayTime
    /\ h \in {NULL} \cup allocated
    /\ SDL_WebXR_GetFramebuffer(h, handle)

GetColorTextureForView(h, viewIndex, handle) ==
    /\ ~aborted
    /\ UNCHANGED probeVars
    /\ UNCHANGED jsDisplayTime
    /\ h \in {NULL} \cup allocated
    /\ SDL_WebXR_GetColorTextureForView(h, viewIndex, handle)

GetDepthTextureForView(h, viewIndex, handle) ==
    /\ ~aborted
    /\ UNCHANGED probeVars
    /\ UNCHANGED jsDisplayTime
    /\ h \in {NULL} \cup allocated
    /\ SDL_WebXR_GetDepthTextureForView(h, viewIndex, handle)

\* The host hands BeginFrame a NULL frame or a buffer it has just declared
\* (webxr_test.c line 171), which holds the caller's values.
FramePtrs == { NullStr, Ptr(CallerFrame) }

BeginFrame(h, framePtr, vc, fo) ==
    /\ ~aborted
    /\ UNCHANGED probeVars
    /\ UNCHANGED jsDisplayTime
    /\ h \in {NULL} \cup allocated
    /\ SDL_WebXR_BeginFrame(h, framePtr, vc, fo)

\* The fetch outcomes the environment chooses for view i of a call that
\* reports vc views: a view BeginFrame never asks for has none to choose.
FetchOutcomesFor(i, h, framePtr, vc) ==
    IF h # NULL /\ framePtr # NullStr /\ jsState \in Renderable /\ i < vc
    THEN FetchOutcome
    ELSE {AllFetched}

(* --------------------------- specifications --------------------------- *)

\* The session lifecycle: every operation and every callback, with one
\* mode, one reference space, one string and no fetch failures.
Next ==
    \/ \E a \in {NULL} \cup Addr :
          RequestSession(SDL_WEBXR_SESSION_IMMERSIVE_VR,
                         SDL_WEBXR_REFSPACE_LOCAL_FLOOR, a)
    \/ \E h \in {NULL} \cup Addr : GetSessionState(h)
    \/ \E h \in {NULL} \cup Addr : EndSession(h)
    \/ \E h \in Addr, crash \in BOOLEAN : EndSessionAgain(h, crash)
    \/ \E h \in {NULL} \cup Addr, f \in FramePtrs, vc \in {0, StereoMax} :
          BeginFrame(h, f, vc, [i \in 0 .. (ViewCapacity - 1) |-> AllFetched])
    \/ EnvStarted(Ptr("local-floor"))
    \/ EnvFailed(Ptr("denied"))
    \/ EnvEnded
    \/ EnvReady
    \/ \E st \in Renderable : EnvVisibility(st)
    \/ EnvSupportChange

Spec == Init /\ [][Next]_vars

\* Session requests: every mode and reference space, with the slot empty
\* or holding a session that was requested, started, failed or ended, and
\* with XR support present or absent.
NextRequest ==
    \/ \E m \in SessionModes, r \in ReferenceSpaceTypes, a \in {NULL} \cup Addr :
          RequestSession(m, r, a)
    \/ \E h \in {NULL} \cup Addr : EndSession(h)
    \/ EnvStarted(Ptr("local-floor"))
    \/ EnvFailed(Ptr("denied"))
    \/ EnvEnded
    \/ EnvSupportChange

SpecRequest == Init /\ [][NextRequest]_vars

\* The lifecycle callbacks: every reference-space string and every failure
\* message.
NextCallback ==
    \/ \E a \in {NULL} \cup Addr :
          RequestSession(SDL_WEBXR_SESSION_IMMERSIVE_VR,
                         SDL_WEBXR_REFSPACE_LOCAL_FLOOR, a)
    \/ \E h \in {NULL} \cup Addr : GetSessionState(h)
    \/ \E h \in {NULL} \cup Addr : EndSession(h)
    \/ \E s \in RefStrings : EnvStarted(s)
    \/ \E m \in FailMessages : EnvFailed(m)
    \/ EnvEnded
    \/ EnvReady
    \/ \E st \in Renderable : EnvVisibility(st)

SpecCallback == Init /\ [][NextCallback]_vars

\* The frame marshaller: every reported view count and every combination
\* of fetch outcomes, in every lifecycle state of one session.
NextFrame ==
    \/ \E a \in {NULL} \cup Addr :
          RequestSession(SDL_WEBXR_SESSION_IMMERSIVE_VR,
                         SDL_WEBXR_REFSPACE_LOCAL_FLOOR, a)
    \/ \E h \in {NULL} \cup Addr, f \in FramePtrs, vc \in ViewCounts :
          \E o0 \in FetchOutcomesFor(0, h, f, vc),
             o1 \in FetchOutcomesFor(1, h, f, vc) :
             BeginFrame(h, f, vc, [i \in 0 .. (ViewCapacity - 1) |->
                                     IF i = 0 THEN o0 ELSE o1])
    \/ EnvStarted(Ptr("local-floor"))
    \/ EnvFailed(Ptr("denied"))
    \/ EnvEnded
    \/ EnvReady
    \/ \E st \in Renderable : EnvVisibility(st)

SpecFrame == Init /\ [][NextFrame]_vars

\* The mode-support cache: every mode a caller may pass, every answer the
\* environment may give, with XR support present or absent.
NextProbe ==
    \/ \E m \in ModeArgs : IsSessionModeSupported(m)
    \/ \E m \in ModeArgs, v \in ProbeAnswers : EnvProbeAnswer(m, v)
    \/ EnvSupportChange

SpecProbe == Init /\ [][NextProbe]_vars

\* The address an allocator that takes the first free block hands out.
LowestAddr == CHOOSE a \in Addr : \A b \in Addr : a <= b

\* Every operation of the API, with XR support coming and going while a
\* session does or does not exist.
NextUnavailable ==
    \/ \E a \in {NULL, LowestAddr} :
          RequestSession(SDL_WEBXR_SESSION_IMMERSIVE_VR,
                         SDL_WEBXR_REFSPACE_LOCAL_FLOOR, a)
    \/ \E h \in {NULL} \cup Addr : GetSessionState(h)
    \/ \E h \in {NULL} \cup Addr : EndSession(h)
    \/ \E h \in {NULL} \cup Addr, f \in FramePtrs :
          BeginFrame(h, f, StereoMax,
                     [i \in 0 .. (ViewCapacity - 1) |-> AllFetched])
    \/ IsSessionModeSupported(SDL_WEBXR_SESSION_IMMERSIVE_VR)
    \/ \E h \in {NULL} \cup Addr, d \in Devices : BindGPUDevice(h, d)
    \/ \E h \in {NULL} \cup Addr : EndFrame(h)
    \/ \E h \in {NULL} \cup Addr : GetViewCount(h, StereoMax)
    \/ \E h \in {NULL} \cup Addr, p \in BOOLEAN, ok \in BOOLEAN :
          GetRenderTargetSize(h, p, TRUE, ok)
    \/ \E h \in {NULL} \cup Addr, p \in BOOLEAN, ok \in {0, 1} :
          GetHeadTransform(h, p, ok)
    \/ \E h \in {NULL} \cup Addr, t \in EnvHandles : GetFramebuffer(h, t)
    \/ \E h \in {NULL} \cup Addr, t \in EnvHandles :
          GetColorTextureForView(h, 0, t)
    \/ \E h \in {NULL} \cup Addr, t \in EnvHandles :
          GetDepthTextureForView(h, 1, t)
    \/ \E v \in ProbeAnswers :
          EnvProbeAnswer(SDL_WEBXR_SESSION_IMMERSIVE_VR, v)
    \/ EnvStarted(Ptr("local-floor"))
    \/ EnvEnded
    \/ EnvSupportChange

SpecUnavailable == Init /\ [][NextUnavailable]_vars

\* The frame's timestamp: BeginFrame for every reported view count, with
\* the environment's frame carrying a predicted display time or not.
NextTime ==
    \/ \E a \in {NULL, LowestAddr} :
          RequestSession(SDL_WEBXR_SESSION_IMMERSIVE_VR,
                         SDL_WEBXR_REFSPACE_LOCAL_FLOOR, a)
    \/ \E h \in {NULL} \cup Addr, f \in FramePtrs, vc \in ViewCounts :
          BeginFrame(h, f, vc, [i \in 0 .. (ViewCapacity - 1) |-> AllFetched])
    \/ \E h \in {NULL} \cup Addr : EndSession(h)
    \/ EnvStarted(Ptr("local-floor"))
    \/ EnvFailed(Ptr("denied"))
    \/ EnvEnded
    \/ \E st \in Renderable : EnvVisibility(st)
    \/ \E t \in DisplayTimes : EnvFrameTime(t)

SpecTime == Init /\ [][NextTime]_vars

\* The environment answers a start request, by the success or by the
\* failure callback.
EnvAnswer ==
    \/ EnvStarted(Ptr("local-floor"))
    \/ EnvFailed(Ptr("denied"))

\* The lifecycle of a program that keeps running, with an environment that
\* answers every start request sooner or later.
NextLive ==
    \/ \E a \in {NULL} \cup Addr :
          RequestSession(SDL_WEBXR_SESSION_IMMERSIVE_VR,
                         SDL_WEBXR_REFSPACE_LOCAL_FLOOR, a)
    \/ \E h \in {NULL} \cup Addr : GetSessionState(h)
    \/ \E h \in {NULL} \cup Addr : EndSession(h)
    \/ EnvStarted(Ptr("local-floor"))
    \/ EnvFailed(Ptr("denied"))
    \/ EnvEnded
    \/ EnvReady
    \/ \E st \in Renderable : EnvVisibility(st)

SpecLive == Init /\ [][NextLive]_vars /\ WF_vars(EnvAnswer)

\* The initialized flag: the three callbacks, and the operations that read
\* or resynchronise a session without being a callback.
NextFlag ==
    \/ \E a \in {NULL, LowestAddr} :
          RequestSession(SDL_WEBXR_SESSION_IMMERSIVE_VR,
                         SDL_WEBXR_REFSPACE_LOCAL_FLOOR, a)
    \/ \E h \in {NULL} \cup Addr : GetSessionState(h)
    \/ \E h \in {NULL} \cup Addr : EndSession(h)
    \/ \E h \in {NULL} \cup Addr, f \in FramePtrs, vc \in {0, StereoMax} :
          BeginFrame(h, f, vc, [i \in 0 .. (ViewCapacity - 1) |-> AllFetched])
    \/ \E h \in {NULL} \cup Addr, d \in Devices : BindGPUDevice(h, d)
    \/ IsSessionModeSupported(SDL_WEBXR_SESSION_IMMERSIVE_VR)
    \/ \E v \in ProbeAnswers :
          EnvProbeAnswer(SDL_WEBXR_SESSION_IMMERSIVE_VR, v)
    \/ EnvStarted(Ptr("local-floor"))
    \/ EnvFailed(Ptr("denied"))
    \/ EnvEnded
    \/ \E st \in Renderable : EnvVisibility(st)

SpecFlag == Init /\ [][NextFlag]_vars

\* Modes on both sides of the cache's indices, beside one that has an
\* entry.
RangeArgs == { SDL_WEBXR_SESSION_IMMERSIVE_VR } \cup (ModeDomain \ ModeSlots)

NextRange ==
    \/ \E m \in RangeArgs : IsSessionModeSupported(m)
    \/ \E m \in RangeArgs, v \in ProbeAnswers : EnvProbeAnswer(m, v)
    \/ EnvSupportChange

SpecRange == Init /\ [][NextRange]_vars

(* ------------------------------- claims -------------------------------- *)

\* A step of the operation op: every operation leaves its own record in
\* call, so a step that changes the state and ends with op in call is one.
IsCall(op) == call'.op = op

\* C1: in every reachable state at most one session is allocated and not
\* yet freed, and g_session is non-null exactly when one is, and then
\* points to it.
C1_Singleton ==
    /\ Cardinality(allocated) <= 1
    /\ (g_session # NULL) <=> (allocated # {})
    /\ g_session # NULL => allocated = {g_session}

\* A session is live and a further request has just been turned down.
C1_Witness ==
    /\ g_session # NULL
    /\ allocated = {g_session}
    /\ call.op = "RequestSession"
    /\ call.ret = NULL
    /\ lastError = ErrAlreadyActive

\* What a RequestSession call must leave alone when it fails: the slot,
\* every session, and the environment's session.
RequestLeftAlone ==
    /\ "sdl_webxr_initialize" \notin call'.env
    /\ UNCHANGED << g_session, allocated, heap, jsState, jsPending >>

\* C2 as stated: RequestSession called while the slot is populated always
\* returns NULL with the AlreadyActive error, does not ask the environment
\* to start a session, and leaves the existing session and the slot as
\* they were.
C2_Original ==
    [][ (IsCall("RequestSession") /\ g_session # NULL)
          => (call'.ret = NULL /\ lastError' = ErrAlreadyActive
              /\ RequestLeftAlone) ]_vars

\* C2, amended: the same, for a call made while the environment is
\* available (an unavailable environment is reported first).
C2_SecondRequestFails ==
    [][ (IsCall("RequestSession") /\ g_session # NULL /\ xrSupported)
          => (call'.ret = NULL /\ lastError' = ErrAlreadyActive
              /\ RequestLeftAlone) ]_vars

\* A request was turned down as AlreadyActive while the first session runs.
C2_Witness ==
    /\ call.op = "RequestSession"
    /\ call.ret = NULL
    /\ lastError = ErrAlreadyActive
    /\ g_session # NULL
    /\ heap[g_session].state = SDL_WEBXR_STATE_RUNNING
    /\ heap[g_session].initialized

\* What a successful RequestSession call leaves behind.
RequestCreated ==
    /\ call'.ret # NULL
    /\ g_session' = call'.ret
    /\ heap'[call'.ret].state = SDL_WEBXR_STATE_REQUESTING
    /\ heap'[call'.ret].initialized = FALSE
    /\ heap'[call'.ret].mode = call'.mode
    /\ heap'[call'.ret].refSpaceType = call'.refSpaceType

\* C3 as stated: every RequestSession call made while no session is active
\* and the environment is available returns a non-null handle to a session
\* in REQUESTING, not initialized, holding the requested mode and
\* reference-space type.
C3_Original ==
    [][ (IsCall("RequestSession") /\ g_session = NULL /\ xrSupported)
          => RequestCreated ]_vars

\* C3, amended: that holds whenever the allocation succeeds; when it fails
\* the call returns NULL, the slot stays empty and the environment is not
\* asked to start a session.
C3_RequestCreates ==
    [][ (IsCall("RequestSession") /\ g_session = NULL /\ xrSupported)
          => IF call'.calloc # NULL
             THEN RequestCreated
             ELSE call'.ret = NULL /\ RequestLeftAlone ]_vars

\* An immersive-AR session with an unbounded reference space was created.
C3_Witness ==
    /\ call.op = "RequestSession"
    /\ call.ret # NULL
    /\ call.mode = SDL_WEBXR_SESSION_IMMERSIVE_AR
    /\ call.refSpaceType = SDL_WEBXR_REFSPACE_UNBOUNDED
    /\ heap[call.ret].state = SDL_WEBXR_STATE_REQUESTING

\* C4: RequestSession called while the environment lacks XR support fails
\* with the Unavailable error, allocates nothing, leaves the slot as it
\* was and does not ask the environment to start a session, also when a
\* session is active (the availability check comes first).
C4_Unavailable ==
    [][ (IsCall("RequestSession") /\ ~xrSupported)
          => (call'.ret = NULL /\ lastError' = ErrUnavailable
              /\ RequestLeftAlone) ]_vars

\* A request failed as Unavailable although a session was active.
C4_Witness ==
    /\ call.op = "RequestSession"
    /\ call.ret = NULL
    /\ lastError = ErrUnavailable
    /\ ~xrSupported
    /\ g_session # NULL

\* What SDL_strlcpy may leave of s in refSpaceTypeString: s, or the prefix
\* of s that fits 31 characters and the terminator.
Truncated(s) ==
    IF Len(s) <= RefSpaceStringSize - 1 THEN s
    ELSE SubSeq(s, 1, RefSpaceStringSize - 1)

\* C5: after the success callback with string s is delivered to a
\* requested session, the session is RUNNING, a GetSessionState that
\* follows returns RUNNING, the stored reference-space string is s or its
\* 31-character prefix, and no more than the buffer's 32 bytes are written.
C5_Started ==
    /\ [](call.op = "webxr_on_session_started" /\ call.h # NULL
            => /\ heap[call.h].state = SDL_WEBXR_STATE_RUNNING
               /\ call.written <= RefSpaceStringSize
               /\ call.arg # NullStr
                    => heap[call.h].refSpaceTypeString = Truncated(call.arg[1]))
    /\ [][ (call.op = "webxr_on_session_started" /\ call.h # NULL
              /\ IsCall("GetSessionState") /\ call'.h = call.h)
             => call'.ret = SDL_WEBXR_STATE_RUNNING ]_vars

\* The success callback delivered a string longer than the buffer.
C5_Witness ==
    /\ call.op = "webxr_on_session_started"
    /\ call.h # NULL
    /\ call.arg # NullStr
    /\ Len(call.arg[1]) > RefSpaceStringSize
    /\ Len(heap[call.h].refSpaceTypeString) = RefSpaceStringSize - 1

\* C6 as stated: after the failure callback with message m is delivered to
\* a requested session, the session's state is IDLE and the last-error
\* message is m.
C6_Original ==
    call.op = "webxr_on_session_failed" /\ call.h # NULL /\ call.arg # NullStr
        => /\ heap[call.h].state = SDL_WEBXR_STATE_IDLE
           /\ lastError = call.arg[1]

\* C6, amended: the state is IDLE, a GetSessionState that follows returns
\* IDLE, and the last-error message is m after the words
\* "WebXR session failed: "; a NULL message leaves the last error as it was.
C6_Failed ==
    /\ [](call.op = "webxr_on_session_failed" /\ call.h # NULL
            => /\ heap[call.h].state = SDL_WEBXR_STATE_IDLE
               /\ call.arg # NullStr
                    => lastError = "WebXR session failed: " \o call.arg[1])
    /\ [][ (IsCall("webxr_on_session_failed") /\ call'.arg = NullStr)
             => lastError' = lastError ]_vars
    /\ [][ (call.op = "webxr_on_session_failed" /\ call.h # NULL
              /\ IsCall("GetSessionState") /\ call'.h = call.h)
             => call'.ret = SDL_WEBXR_STATE_IDLE ]_vars

\* The failure callback delivered the message "denied" to a session.
C6_Witness ==
    /\ call.op = "webxr_on_session_failed"
    /\ call.h # NULL
    /\ call.arg = Ptr("denied")
    /\ heap[call.h].state = SDL_WEBXR_STATE_IDLE
    /\ lastError = "WebXR session failed: denied"

\* C7: BeginFrame with a NULL session, a NULL frame, or while the session's
\* state (as the environment reports it) is IDLE, REQUESTING, READY or
\* ENDED returns false, does not query the view count and leaves the frame
\* buffer as the caller handed it in.
C7_BeginFrameRejects ==
    [][ (IsCall("BeginFrame")
           /\ (\/ call'.h = NULL
               \/ call'.framePtr = NullStr
               \/ jsState \in { SDL_WEBXR_STATE_IDLE,
                                SDL_WEBXR_STATE_REQUESTING,
                                SDL_WEBXR_STATE_READY,
                                SDL_WEBXR_STATE_ENDED }))
          => /\ call'.ret = FALSE
             /\ "sdl_webxr_get_view_count" \notin call'.env
             /\ call'.fetched = {}
             /\ frame' = IF call'.framePtr = NullStr THEN frame
                         ELSE call'.framePtr[1] ]_vars

\* BeginFrame was refused for a live session in READY.
C7_Witness ==
    /\ call.op = "BeginFrame"
    /\ call.h # NULL
    /\ call.framePtr # NullStr
    /\ jsState = SDL_WEBXR_STATE_READY
    /\ call.ret = FALSE
    /\ frame = CallerFrame

\* C8: whenever BeginFrame returns true, frame.viewCount is the reported
\* count or 2, whichever is less, and is 1 or 2; only the views below it
\* are fetched and written, the others keep the caller's values.
C8_ViewCountClamped ==
    call.op = "BeginFrame" /\ call.ret = TRUE
        => /\ frame.viewCount = Min(call.vc, 2)
           /\ frame.viewCount \in {1, 2}
           /\ call.fetched = 0 .. (frame.viewCount - 1)
           /\ call.fetched \subseteq 0 .. 1
           /\ \A i \in 0 .. 1 :
                 i >= frame.viewCount
                    => frame.views[i] = call.framePtr[1].views[i]

\* The environment reported 3 views or more and the frame holds 2.
C8_Witness ==
    /\ call.op = "BeginFrame"
    /\ call.ret = TRUE
    /\ call.vc >= 3
    /\ frame.viewCount = 2

\* The view BeginFrame must leave in views[i] after the fetch outcomes o.
ExpectedView(i, o) ==
    /\ frame.views[i].projectionMatrix =
          (IF o.proj THEN EnvProjection(i) ELSE [k \in 0 .. 15 |-> 0])
    /\ frame.views[i].viewMatrix =
          (IF o.xform THEN EnvTransform(i) ELSE [k \in 0 .. 15 |-> 0])
    /\ << frame.views[i].viewportX, frame.views[i].viewportY,
          frame.views[i].viewportWidth, frame.views[i].viewportHeight >> =
          (IF o.vp THEN EnvViewport(i) ELSE << 0, 0, 0, 0 >>)

\* C9: in a renderable state with a reported view count above 0,
\* BeginFrame returns true whatever the fetches did, and each of the three
\* fields of each view below the count holds the fetched value if its own
\* fetch succeeded and zeros if it failed.
C9_PerFieldDegrade ==
    ( /\ call.op = "BeginFrame"
      /\ call.h # NULL
      /\ call.framePtr # NullStr
      /\ jsState \in { SDL_WEBXR_STATE_RUNNING, SDL_WEBXR_STATE_VISIBLE,
                       SDL_WEBXR_STATE_VISIBLE_BLURRED }
      /\ call.vc > 0 )
        => /\ call.ret = TRUE
           /\ \A i \in 0 .. (frame.viewCount - 1) :
                 ExpectedView(i, call.fo[i])

\* The projection fetch failed for view 1 only: view 0 holds its fetched
\* projection, view 1 zeros beside its fetched view matrix.
C9_Witness ==
    /\ call.op = "BeginFrame"
    /\ call.ret = TRUE
    /\ frame.viewCount = 2
    /\ call.fo[0] = AllFetched
    /\ call.fo[1] = [proj |-> FALSE, xform |-> TRUE, vp |-> TRUE]
    /\ frame.views[0].projectionMatrix = EnvProjection(0)
    /\ frame.views[1].projectionMatrix = [k \in 0 .. 15 |-> 0]
    /\ frame.views[1].viewMatrix = EnvTransform(1)

\* C10 as stated: a second EndSession on a handle already ended frees
\* nothing a second time and leaves the slot and every session as they
\* were.
C10_Idempotent ==
    [][ (IsCall("EndSession") /\ call'.again)
          => /\ ~call'.doubleFree
             /\ UNCHANGED << g_session, allocated, heap >> ]_vars

\* What EndSession does to a live handle: the environment is told to
\* uninitialize, the slot is cleared and the instance is freed.
EndedLive ==
    /\ "sdl_webxr_uninitialize" \in call'.env
    /\ g_session' = NULL
    /\ call'.h \notin allocated'
    /\ heap'[call'.h] = FreedMem
    /\ ~call'.doubleFree

\* EndSession(NULL): no environment call, nothing changes.
EndedNull ==
    /\ call'.env = {}
    /\ UNCHANGED << xrSupported, jsState, jsPending, g_session, allocated,
                    heap, ended, lastError, frame, aborted >>

\* C11 as stated: EndSession on the live handle, in any lifecycle state,
\* tells the environment to uninitialize, clears the slot and frees the
\* instance, and a RequestSession that follows with the environment
\* available returns a session; EndSession(NULL) does none of it.
C11_Original ==
    /\ [][ (IsCall("EndSession") /\ call'.h \in allocated) => EndedLive ]_vars
    /\ [][ (IsCall("EndSession") /\ call'.h = NULL) => EndedNull ]_vars
    /\ [][ (call.op = "EndSession" /\ call.h # NULL /\ ~call.doubleFree
              /\ IsCall("RequestSession") /\ xrSupported)
             => call'.ret # NULL ]_vars

\* C11, amended: the RequestSession that follows is not turned down as
\* AlreadyActive and returns a session in REQUESTING whenever its
\* allocation succeeds.
C11_EndSessionDestroys ==
    /\ [][ (IsCall("EndSession") /\ call'.h \in allocated) => EndedLive ]_vars
    /\ [][ (IsCall("EndSession") /\ call'.h = NULL) => EndedNull ]_vars
    /\ [][ (call.op = "EndSession" /\ call.h # NULL /\ ~call.doubleFree
              /\ IsCall("RequestSession") /\ xrSupported)
             => /\ lastError' = lastError
                /\ call'.calloc # NULL => RequestCreated ]_vars

\* EndSession has just destroyed a session that had reached ENDED on its
\* own.
C11_Witness ==
    /\ call.op = "EndSession"
    /\ call.h # NULL
    /\ ~call.doubleFree
    /\ jsState = SDL_WEBXR_STATE_ENDED
    /\ g_session = NULL
    /\ allocated = {}

\* The state each lifecycle callback stands for.
CallbackState(op) ==
    CASE op = "webxr_on_session_started" -> SDL_WEBXR_STATE_RUNNING
      [] op = "webxr_on_session_ended" -> SDL_WEBXR_STATE_ENDED
      [] op = "webxr_on_session_failed" -> SDL_WEBXR_STATE_IDLE

Callbacks ==
    { "webxr_on_session_started", "webxr_on_session_ended",
      "webxr_on_session_failed" }

\* C12: GetSessionState(NULL) returns IDLE and asks the environment
\* nothing; for a session it returns the environment's current state and
\* leaves that value in the session's cached state, whatever the cache
\* held; called right after a callback it returns that callback's state.
C12_GetSessionStateSyncs ==
    /\ [][ (IsCall("GetSessionState") /\ call'.h = NULL)
             => /\ call'.ret = SDL_WEBXR_STATE_IDLE
                /\ call'.env = {}
                /\ heap' = heap ]_vars
    /\ [][ (IsCall("GetSessionState") /\ call'.h # NULL)
             => /\ call'.ret = jsState
                /\ "sdl_webxr_get_session_state" \in call'.env
                /\ heap'[call'.h].state = call'.ret
                /\ \A a \in Addr \ {call'.h} : heap'[a] = heap[a] ]_vars
    /\ [][ (call.op \in Callbacks /\ call.h # NULL
              /\ IsCall("GetSessionState") /\ call'.h = call.h)
             => call'.ret = CallbackState(call.op) ]_vars

\* GetSessionState returned VISIBLE, a state no callback writes, for a
\* session whose cache the success callback had set to RUNNING.
C12_Witness ==
    /\ call.op = "GetSessionState"
    /\ call.h # NULL
    /\ call.ret = SDL_WEBXR_STATE_VISIBLE
    /\ heap[call.h].state = SDL_WEBXR_STATE_VISIBLE
    /\ heap[call.h].initialized

\* The live session has reached ENDED: the end callback was delivered to it
\* and the environment reports ENDED.
ReachedEnded ==
    /\ g_session # NULL
    /\ jsState = SDL_WEBXR_STATE_ENDED

TableNext(op, st) ==
    CASE op = "webxr_on_session_started" ->
            IF st = SDL_WEBXR_STATE_REQUESTING
            THEN SDL_WEBXR_STATE_RUNNING ELSE st
      [] op = "webxr_on_session_failed" ->
            IF st = SDL_WEBXR_STATE_REQUESTING
            THEN SDL_WEBXR_STATE_IDLE ELSE st
      [] op = "webxr_on_session_ended" ->
            IF st \in { SDL_WEBXR_STATE_RUNNING, SDL_WEBXR_STATE_VISIBLE,
                        SDL_WEBXR_STATE_VISIBLE_BLURRED }
            THEN SDL_WEBXR_STATE_ENDED ELSE st

\* C14 as stated: a success, failure or end callback delivered to the live
\* session moves its state along the table, and leaves the state as it was
\* when the table has no transition for it.
C14_Original ==
    (call.op \in Callbacks /\ call.h # NULL)
        => heap[call.h].state = TableNext(call.op, call.was)

\* C14, amended: the success callback leaves the live session in RUNNING,
\* the failure callback in IDLE and the end callback in ENDED, whatever
\* state it was in; a callback that finds the slot empty changes nothing;
\* and beside the callbacks only the resynchronisation of GetSessionState
\* and BeginFrame changes a live session's state.
C14_CallbacksOverwrite ==
    /\ [](call.op \in Callbacks /\ call.h # NULL
            => heap[call.h].state = CallbackState(call.op))
    /\ [][ (\E op \in Callbacks : IsCall(op)) /\ g_session = NULL
             => UNCHANGED << g_session, allocated, heap >> ]_vars
    /\ [][ (g_session # NULL /\ g_session' = g_session
              /\ heap'[g_session].state # heap[g_session].state)
             => \/ \E op \in Callbacks : IsCall(op)
                \/ IsCall("GetSessionState")
                \/ IsCall("BeginFrame") ]_vars

\* The success callback was delivered to a session in ENDED and left it in
\* RUNNING.
C14_Witness ==
    /\ call.op = "webxr_on_session_started"
    /\ call.h # NULL
    /\ call.was = SDL_WEBXR_STATE_ENDED
    /\ heap[call.h].state = SDL_WEBXR_STATE_RUNNING

\* A failure has returned the live session to IDLE.
FailedIdle ==
    /\ g_session # NULL
    /\ heap[g_session].state = SDL_WEBXR_STATE_IDLE
    /\ jsState = SDL_WEBXR_STATE_IDLE

\* C15 as stated: after a failure callback has returned the session to
\* IDLE, a RequestSession call with the environment available returns a
\* session in REQUESTING.
C15_Original ==
    [][ (FailedIdle /\ IsCall("RequestSession") /\ xrSupported)
          => /\ call'.ret # NULL
             /\ heap'[call'.ret].state = SDL_WEBXR_STATE_REQUESTING ]_vars

\* C15, amended: the failed session still fills the slot, so the call is
\* refused as AlreadyActive and changes nothing; EndSession on the failed
\* session empties the slot, and the RequestSession that follows returns a
\* session in REQUESTING whenever its allocation succeeds.
C15_RecoverAfterEnd ==
    /\ [][ (FailedIdle /\ IsCall("RequestSession") /\ xrSupported)
             => /\ call'.ret = NULL
                /\ lastError' = ErrAlreadyActive
                /\ RequestLeftAlone ]_vars
    /\ [][ (FailedIdle /\ IsCall("EndSession") /\ call'.h = g_session)
             => (g_session' = NULL /\ allocated' = {}) ]_vars
    /\ [][ (call.op = "EndSession" /\ call.h # NULL /\ g_session = NULL
              /\ jsState = SDL_WEBXR_STATE_IDLE
              /\ IsCall("RequestSession") /\ xrSupported
              /\ call'.calloc # NULL)
             => RequestCreated ]_vars

\* A re-request right after the failure callback was refused: the failed
\* session is still in the slot.
C15_Witness ==
    /\ call.op = "RequestSession"
    /\ call.ret = NULL
    /\ lastError = ErrAlreadyActive
    /\ xrSupported
    /\ g_session # NULL
    /\ heap[g_session].state = SDL_WEBXR_STATE_IDLE
    /\ jsState = SDL_WEBXR_STATE_IDLE

\* The cache holds an answer for the mode of the call being made.
AnswerKnown ==
    /\ call'.mode \in ModeSlots
    /\ g_mode_supported[call'.mode] # Unknown

\* C16 as stated: IsSessionModeSupported for a mode whose cache entry is
\* known triggers no probe, returns the cached value and leaves the cache
\* as it was.
C16_Original ==
    [][ (IsCall("IsSessionModeSupported") /\ AnswerKnown)
          => /\ ~call'.probed
             /\ call'.ret = (g_mode_supported[call'.mode] = 1)
             /\ UNCHANGED << g_mode_supported, jsProbes >> ]_vars

\* C16, amended: no probe and no change of the cache in any case; the
\* cached value is returned while the environment is available, and false
\* while it is not.
C16_NoReprobe ==
    [][ (IsCall("IsSessionModeSupported") /\ AnswerKnown)
          => /\ ~call'.probed
             /\ "sdl_webxr_is_session_supported" \notin call'.env
             /\ call'.ret = IF xrSupported
                             THEN g_mode_supported[call'.mode] = 1
                             ELSE FALSE
             /\ UNCHANGED << g_mode_supported, jsProbes >> ]_vars

\* A call for immersive-AR found the cached answer no and returned it
\* without probing.
C16_Witness ==
    /\ call.op = "IsSessionModeSupported"
    /\ xrSupported
    /\ call.mode = SDL_WEBXR_SESSION_IMMERSIVE_AR
    /\ g_mode_supported[SDL_WEBXR_SESSION_IMMERSIVE_AR] = 0
    /\ jsProbes[SDL_WEBXR_SESSION_IMMERSIVE_AR] = 0
    /\ call.ret = FALSE
    /\ ~call.probed

\* C17 as stated: at most one probe is outstanding for a mode, a call for
\* a mode whose probe is not yet answered triggers no second probe, and a
\* mode's cache entry is written only while it is unknown, so at most once.
C17_Original ==
    /\ [](\A m \in ModeArgs : jsProbes[m] <= 1)
    /\ [][ (IsCall("IsSessionModeSupported") /\ jsProbes[call'.mode] > 0)
             => (~call'.probed /\ jsProbes' = jsProbes) ]_vars
    /\ [][ (IsCall("mode_supported_callback") /\ call'.mode \in ModeSlots)
             => g_mode_supported[call'.mode] = Unknown ]_vars

\* C17, amended: with the environment available, every call for a mode
\* whose entry is unknown (or that has no entry) triggers a probe, also
\* while earlier probes of the mode are unanswered; a call for a mode whose
\* entry is known triggers none; every answer delivered writes the entry,
\* and a known entry never becomes unknown again.
C17_ProbePerCall ==
    /\ [][ (IsCall("IsSessionModeSupported") /\ xrSupported /\ ~AnswerKnown)
             => /\ call'.probed
                /\ jsProbes'[call'.mode] = jsProbes[call'.mode] + 1 ]_vars
    /\ [][ (IsCall("IsSessionModeSupported") /\ (AnswerKnown \/ ~xrSupported))
             => (~call'.probed /\ jsProbes' = jsProbes) ]_vars
    /\ [][ (IsCall("mode_supported_callback") /\ call'.mode \in ModeSlots)
             => g_mode_supported'[call'.mode] = call'.supported ]_vars
    /\ [][ \A m \in ModeSlots :
               g_mode_supported[m] # Unknown
                  => g_mode_supported'[m] # Unknown ]_vars

\* Two probes of immersive-VR are outstanding: a second call was made
\* before the first was answered.
C17_Witness ==
    /\ call.op = "IsSessionModeSupported"
    /\ call.mode = SDL_WEBXR_SESSION_IMMERSIVE_VR
    /\ call.probed
    /\ jsProbes[SDL_WEBXR_SESSION_IMMERSIVE_VR] >= 2
    /\ g_mode_supported[SDL_WEBXR_SESSION_IMMERSIVE_VR] = Unknown

\* A call made with the environment available for a mode whose answer has
\* been delivered returns the cached answer.
ReturnsCached ==
    (IsCall("IsSessionModeSupported") /\ xrSupported /\ AnswerKnown)
        => call'.ret = (g_mode_supported[call'.mode] = 1)

\* C18 as stated: once an answer for a mode has been delivered the cache
\* entry keeps it for good, and every later call for the mode with the
\* environment available returns it.
C18_Original ==
    /\ [][ \A m \in ModeSlots :
               g_mode_supported[m] # Unknown
                  => g_mode_supported'[m] = g_mode_supported[m] ]_vars
    /\ [][ ReturnsCached ]_vars

\* C18, amended: every later call returns the answer delivered last for
\* the mode; an entry that is known changes only when another answer for
\* the mode, to a probe triggered before the first answer, is delivered,
\* and is final once no probe of the mode is outstanding.
C18_LastAnswerWins ==
    /\ [][ (IsCall("mode_supported_callback") /\ call'.mode \in ModeSlots)
             => g_mode_supported'[call'.mode] = call'.supported ]_vars
    /\ [][ \A m \in ModeSlots :
               (g_mode_supported[m] # Unknown
                  /\ g_mode_supported'[m] # g_mode_supported[m])
                  => /\ IsCall("mode_supported_callback")
                     /\ call'.mode = m
                     /\ jsProbes[m] > 0 ]_vars
    /\ [][ \A m \in ModeSlots :
               (g_mode_supported[m] # Unknown /\ jsProbes[m] = 0)
                  => (g_mode_supported'[m] = g_mode_supported[m]
                      /\ jsProbes'[m] = 0) ]_vars
    /\ [][ ReturnsCached ]_vars

\* A call for immersive-VR, whose first call returns the optimistic true,
\* returned the delivered answer no.
C18_Witness ==
    /\ call.op = "IsSessionModeSupported"
    /\ xrSupported
    /\ call.mode = SDL_WEBXR_SESSION_IMMERSIVE_VR
    /\ g_mode_supported[SDL_WEBXR_SESSION_IMMERSIVE_VR] = 0
    /\ call.ret = FALSE
    /\ ~call.probed

\* C19: with the environment available, a call for a mode whose cache
\* entry is unknown triggers a probe of that mode and returns true for
\* immersive-VR and false for inline and immersive-AR; a call for a mode
\* whose entry is known returns the cached answer and triggers none.
C19_DefaultOrCached ==
    [][ (IsCall("IsSessionModeSupported") /\ xrSupported
           /\ call'.mode \in SessionModes)
          => IF g_mode_supported[call'.mode] = Unknown
             THEN /\ call'.probed
                  /\ "sdl_webxr_is_session_supported" \in call'.env
                  /\ jsProbes'[call'.mode] = jsProbes[call'.mode] + 1
                  /\ \A m \in ModeArgs \ {call'.mode} :
                        jsProbes'[m] = jsProbes[m]
                  /\ call'.ret =
                        (call'.mode = SDL_WEBXR_SESSION_IMMERSIVE_VR)
             ELSE /\ ~call'.probed
                  /\ jsProbes' = jsProbes
                  /\ call'.ret = (g_mode_supported[call'.mode] = 1) ]_vars

\* The first call for immersive-VR returned the optimistic true and left a
\* probe outstanding.
C19_Witness ==
    /\ call.op = "IsSessionModeSupported"
    /\ xrSupported
    /\ call.mode = SDL_WEBXR_SESSION_IMMERSIVE_VR
    /\ call.ret = TRUE
    /\ call.probed
    /\ jsProbes[SDL_WEBXR_SESSION_IMMERSIVE_VR] = 1
    /\ g_mode_supported[SDL_WEBXR_SESSION_IMMERSIVE_VR] = Unknown

\* The operations that take a session, and all operations but IsAvailable.
SessionOps ==
    { "GetSessionState", "EndSession", "BindGPUDevice", "BeginFrame",
      "EndFrame", "GetViewCount", "GetRenderTargetSize", "GetHeadTransform",
      "GetFramebuffer", "GetColorTextureForView", "GetDepthTextureForView" }

ApiOps == SessionOps \cup { "IsSessionModeSupported", "RequestSession" }

\* The failure or zero value of each operation (NULL for the two that
\* return nothing).
Sentinel(op) ==
    CASE op \in { "IsSessionModeSupported", "BindGPUDevice", "BeginFrame",
                  "GetRenderTargetSize", "GetHeadTransform" } -> FALSE
      [] op = "GetSessionState" -> SDL_WEBXR_STATE_IDLE
      [] op \in { "GetViewCount", "GetFramebuffer", "GetColorTextureForView",
                  "GetDepthTextureForView" } -> 0
      [] op \in { "RequestSession", "EndSession", "EndFrame" } -> NULL

\* C20 as stated: while the environment is unavailable every operation
\* returns its failure or zero value and changes no session, slot or cache
\* state.
C20_Original ==
    [][ (~xrSupported /\ call'.op \in ApiOps /\ call' # call)
          => /\ call'.ret = Sentinel(call'.op)
             /\ UNCHANGED << g_session, allocated, heap,
                             g_mode_supported >> ]_vars

\* C20, amended: while the environment is unavailable
\* IsSessionModeSupported returns false without probing and RequestSession
\* returns NULL with the Unavailable error, neither changing session, slot
\* or cache, so no session is created; every operation given a NULL
\* session returns its failure or zero value, asks the environment nothing
\* and changes nothing, available or not.  An operation given a session
\* that exists does not test the availability: GetSessionState returns the
\* environment's state, EndSession destroys the session, BindGPUDevice
\* with a device returns true.
C20_UnavailableFails ==
    /\ [][ (~xrSupported /\ IsCall("IsSessionModeSupported"))
             => /\ call'.ret = FALSE
                /\ ~call'.probed
                /\ UNCHANGED << g_session, allocated, heap,
                                g_mode_supported, jsProbes >> ]_vars
    /\ [][ (~xrSupported /\ IsCall("RequestSession"))
             => /\ call'.ret = NULL
                /\ lastError' = ErrUnavailable
                /\ g_mode_supported' = g_mode_supported
                /\ RequestLeftAlone ]_vars
    /\ [][ ~xrSupported => allocated' \subseteq allocated ]_vars
    /\ [][ (call'.op \in SessionOps /\ call' # call /\ call'.h = NULL)
             => /\ call'.ret = Sentinel(call'.op)
                /\ call'.env = {}
                /\ UNCHANGED << g_session, allocated, heap,
                                g_mode_supported, jsState, jsPending,
                                jsProbes >> ]_vars
    /\ [][ (IsCall("GetSessionState") /\ call'.h # NULL)
             => call'.ret = jsState ]_vars
    /\ [][ (IsCall("EndSession") /\ call'.h \in allocated)
             => (g_session' = NULL /\ allocated' = {}) ]_vars
    /\ [][ (IsCall("BindGPUDevice") /\ call'.h # NULL /\ call'.out # NULL)
             => call'.ret = TRUE ]_vars

\* With the environment unavailable, IsSessionModeSupported returned false
\* for immersive-VR although the cache holds the answer yes.
C20_Witness ==
    /\ ~xrSupported
    /\ call.op = "IsSessionModeSupported"
    /\ call.mode = SDL_WEBXR_SESSION_IMMERSIVE_VR
    /\ g_mode_supported[SDL_WEBXR_SESSION_IMMERSIVE_VR] = 1
    /\ call.ret = FALSE
    /\ ~call.probed

\* C21: BindGPUDevice returns false and sets the last error to "Invalid
\* session or device" when the session or the device is NULL, returns true
\* and leaves the last error alone when neither is, and in both cases
\* changes no session, not the slot and not the mode cache.
C21_BindFailsFast ==
    [][ IsCall("BindGPUDevice")
          => /\ IF call'.h = NULL \/ call'.out = NULL
                THEN call'.ret = FALSE /\ lastError' = ErrInvalid
                ELSE call'.ret = TRUE /\ lastError' = lastError
             /\ call'.env = {}
             /\ UNCHANGED << g_session, allocated, heap, g_mode_supported,
                             jsState, jsPending, jsProbes >> ]_vars

\* BindGPUDevice was refused for a live session and a NULL device.
C21_Witness ==
    /\ call.op = "BindGPUDevice"
    /\ call.h # NULL
    /\ call.h = g_session
    /\ call.out = NULL
    /\ call.ret = FALSE
    /\ lastError = ErrInvalid

InRequesting ==
    /\ g_session # NULL
    /\ heap[g_session].state = SDL_WEBXR_STATE_REQUESTING

\* C23: under an environment that answers every start request, a session
\* in REQUESTING does not stay there: it comes to RUNNING or IDLE, or
\* EndSession destroys it and the slot is empty.
C23_RequestingTransient ==
    InRequesting
        ~> \/ g_session = NULL
           \/ heap[g_session].state \in { SDL_WEBXR_STATE_RUNNING,
                                          SDL_WEBXR_STATE_IDLE }

\* An answer of the environment found the session in REQUESTING and took
\* it to RUNNING or to IDLE.
C23_Witness ==
    /\ call.op \in { "webxr_on_session_started", "webxr_on_session_failed" }
    /\ call.h # NULL
    /\ call.h = g_session
    /\ call.was = SDL_WEBXR_STATE_REQUESTING
    /\ heap[g_session].state \in { SDL_WEBXR_STATE_RUNNING,
                                   SDL_WEBXR_STATE_IDLE }

\* The callbacks that answer a start request.
Answers == { "webxr_on_session_started", "webxr_on_session_failed" }

\* A second answer is delivered right after an answer that reached the
\* session in the slot and changed its state. A session issues one start
\* request, so one of the two answers was issued for a session that
\* EndSession had destroyed.
SecondAnswer ==
    /\ call.op \in Answers
    /\ call.h # NULL
    /\ call.h = g_session
    /\ call.was # heap[g_session].state
    /\ \E op \in Answers : IsCall(op)

\* C24 as stated: a callback issued for a destroyed session leaves the
\* session of a later RequestSession as it was, so of two answers that
\* reach the same session one after the other, the first having changed
\* it, the second changes nothing of it.
C24_Original ==
    [][ SecondAnswer => heap'[g_session] = heap[g_session] ]_vars

\* C24, amended: a lifecycle callback acts on whatever session is in the
\* slot, so an answer issued for a destroyed session sets the state and
\* the initialized flag of the session a later RequestSession created, as
\* that session's own answer would; a callback that arrives while the
\* slot is empty changes nothing of the program's state.
C24_CallbackHitsSlot ==
    /\ [][ SecondAnswer
             => /\ heap'[g_session].state = CallbackState(call'.op)
                /\ heap'[g_session].initialized
                      = (call'.op = "webxr_on_session_started") ]_vars
    /\ [][ ((\E op \in Callbacks : IsCall(op)) /\ g_session = NULL)
             => /\ call'.h = NULL
                /\ UNCHANGED << g_session, allocated, heap, ended, lastError,
                                frame, aborted, g_mode_supported >> ]_vars

\* The failure answer reached a session that the success answer had
\* already taken to RUNNING, and left it in IDLE, not initialized.
C24_Witness ==
    /\ call.op = "webxr_on_session_failed"
    /\ call.h # NULL
    /\ call.h = g_session
    /\ call.was = SDL_WEBXR_STATE_RUNNING
    /\ heap[g_session].state = SDL_WEBXR_STATE_IDLE
    /\ ~heap[g_session].initialized

\* The operations the claim C25 names as leaving the initialized flag
\* alone; the probe callback is the mode-support operation the environment
\* runs.
FlagReaders ==
    { "GetSessionState", "BeginFrame", "BindGPUDevice",
      "IsSessionModeSupported", "mode_supported_callback" }

\* C25: a session is created with the initialized flag false; each
\* lifecycle callback delivered to the session in the slot leaves the flag
\* true if it is the started callback and false if it is the end or the
\* failure callback; no other step changes the flag of the session in the
\* slot, so GetSessionState, BeginFrame, BindGPUDevice and the mode-support
\* operations do not.
C25_InitializedFollowsCallback ==
    /\ [][ (IsCall("RequestSession") /\ call'.ret # NULL)
             => /\ g_session' = call'.ret
                /\ ~heap'[g_session'].initialized ]_vars
    /\ [][ ((\E op \in Callbacks : IsCall(op)) /\ g_session # NULL)
             => heap'[g_session].initialized
                  = (call'.op = "webxr_on_session_started") ]_vars
    /\ [][ (g_session # NULL /\ g_session' = g_session
              /\ ~(\E op \in Callbacks : IsCall(op)))
             => heap'[g_session].initialized
                  = heap[g_session].initialized ]_vars
    /\ [][ (\E op \in FlagReaders : IsCall(op))
             => \A a \in Addr : heap'[a].initialized = heap[a].initialized ]_vars

\* BeginFrame returned true for the session in the slot, which the started
\* callback had left initialized in RUNNING: it set the session's state to
\* the environment's VISIBLE and the flag is still true.
C25_Witness ==
    /\ call.op = "BeginFrame"
    /\ call.ret = TRUE
    /\ call.h = g_session
    /\ heap[g_session].state = SDL_WEBXR_STATE_VISIBLE
    /\ heap[g_session].initialized

\* The environment functions BeginFrame calls once per view.
PerViewFetches ==
    { "sdl_webxr_get_projection_for_view", "sdl_webxr_get_transform_for_view",
      "sdl_webxr_get_viewport_for_view" }

\* C26: with the environment in a renderable state and a reported view
\* count of 0 or less, BeginFrame on a session and a frame returns false,
\* the frame's viewCount holds the reported count, its view entries and
\* its timestamp are the caller's, and no per-view function was called.
C26_NoViewsRejected ==
    [][ (IsCall("BeginFrame") /\ call'.h # NULL /\ call'.framePtr # NullStr
           /\ jsState \in Renderable /\ call'.vc <= 0)
          => /\ call'.ret = FALSE
             /\ "sdl_webxr_get_view_count" \in call'.env
             /\ frame'.viewCount = call'.vc
             /\ frame'.views = call'.framePtr[1].views
             /\ frame'.predictedDisplayTime
                   = call'.framePtr[1].predictedDisplayTime
             /\ call'.fetched = {}
             /\ call'.env \cap PerViewFetches = {} ]_vars

\* BeginFrame asked for the view count, was told 0, returned false, and
\* the frame's viewCount, which the caller had left at -1, holds 0.
C26_Witness ==
    /\ call.op = "BeginFrame"
    /\ call.ret = FALSE
    /\ "sdl_webxr_get_view_count" \in call.env
    /\ call.vc = 0
    /\ call.framePtr[1].viewCount = 0 - 1
    /\ frame.viewCount = 0
    /\ frame.views = call.framePtr[1].views

\* C27: the mode cache keeps its three entries; the probe callback for a
\* mode that is none of them leaves the cache as it was; and
\* IsSessionModeSupported for such a mode, with the environment available,
\* asks the environment to probe it and returns false, on every call.
C27_OutOfRangeModes ==
    /\ [](DOMAIN g_mode_supported = ModeSlots)
    /\ [][ (IsCall("mode_supported_callback") /\ call'.mode \notin ModeSlots)
             => g_mode_supported' = g_mode_supported ]_vars
    /\ [][ (IsCall("IsSessionModeSupported") /\ call'.mode \notin ModeSlots
              /\ xrSupported)
             => /\ call'.probed
                /\ call'.ret = FALSE
                /\ jsProbes'[call'.mode] = jsProbes[call'.mode] + 1
                /\ g_mode_supported' = g_mode_supported ]_vars

\* IsSessionModeSupported of a negative mode asked for a probe and
\* returned false while its earlier probe of that mode was not answered
\* yet, and the cache holds an answer for another mode.
C27_Witness ==
    /\ call.op = "IsSessionModeSupported"
    /\ call.mode < 0
    /\ call.probed
    /\ call.ret = FALSE
    /\ jsProbes[call.mode] = 2
    /\ g_mode_supported[SDL_WEBXR_SESSION_IMMERSIVE_VR] # Unknown
====
